---- MODULE Spec2Model ----
(***************************************************************************)
(* Device registry and command queue of src/server.js.                     *)
(*                                                                         *)
(* The server is a single Node.js process.  Every route handler below is   *)
(* synchronous (no await, no callback between its first and last           *)
(* statement), so a handler runs to completion before the next request is  *)
(* looked at: concurrent requests are executed in some serial order, and   *)
(* each handler is one atomic action of the model.                         *)
(*                                                                         *)
(* The three stores are plain object literals ({}), so a lookup obj[k]     *)
(* that finds no own property falls through to Object.prototype.  A device *)
(* id that is the name of an inherited property ("constructor") therefore  *)
(* reads as a truthy value (the function Object) in all three stores       *)
(* before anything was ever stored under it.  The id "__proto__" names the *)
(* accessor of the prototype itself: reading obj["__proto__"] yields       *)
(* Object.prototype, a write of a field through it lands on                *)
(* Object.prototype, where every object of the process inherits it, and    *)
(* obj["__proto__"] = v replaces the prototype of obj by v.                *)
(***************************************************************************)
EXTENDS Integers, Sequences, FiniteSets, TLC

\* ------------------------------------------------------------------ bounds
\* The clock (new Date()) is read in whole units 0..MaxTime.
MaxTime == 1
\* At most MaxSends commands are accepted over a run.
MaxSends == 2

\* ------------------------------------------------------------------ inputs
\* Ordinary device ids.
DeviceIds == {"dev1"}
\* A device id that names a property every object inherits.
ProtoKeys == {"constructor"}
Keys == DeviceIds \cup ProtoKeys
\* What a request may carry as device_id: a key, or nothing ("" is falsy,
\* like a missing field).
IdInputs == Keys \cup {""}
Commands == {"REBOOT", "TEST_COMMAND"}
CommandInputs == Commands \cup {""}
Ips == {"10.0.0.7"}
Tags == 1..MaxSends
\* The device id that names the prototype accessor, and a device id that is
\* the name of the field a heartbeat writes.
PrototypeKey == "__proto__"
FieldKeys == {"last_seen"}
PollutionIds == {PrototypeKey} \cup FieldKeys
AllKeys == Keys \cup PollutionIds

\* An optional field of a request body: given or omitted.
Omitted(v) == [given |-> FALSE, value |-> v]
Given(v) == [given |-> TRUE, value |-> v]
\* The bodies of the update_status requests: nothing but the id; a status with
\* one flag; an empty status with the other flag.
StatusBodies ==
  {[status |-> Omitted(""), recording |-> Omitted(FALSE), screen_recording |-> Omitted(FALSE)],
   [status |-> Given("active"), recording |-> Given(TRUE), screen_recording |-> Omitted(FALSE)],
   [status |-> Given(""), recording |-> Omitted(FALSE), screen_recording |-> Given(TRUE)]}

VARIABLES
  registeredDevices,  \* own properties of registeredDevices: key -> device record
  deviceCommands,     \* own properties of deviceCommands: key -> array of commands
  deviceStatus,       \* own properties of deviceStatus: key -> status record
  now,                \* the clock
  res,                \* the response to the last request
  sinceDrain,         \* history: per key, the commands accepted since the last successful poll or clear
  delivered,          \* history: per accepted command, how often a poll returned it (capped at 2)
  nextTag,            \* history: number of the next accepted command
  justRegistered,     \* history: the poll answered last came directly after a successful registration of its id
  overwrote,          \* history: the status update answered last replaced a record that had recording set
  objectPrototype     \* the properties the handlers have added to Object.prototype: name -> value

vars == <<registeredDevices, deviceCommands, deviceStatus, now, res,
          sinceDrain, delivered, nextTag, justRegistered, overwrote, objectPrototype>>

stores == <<registeredDevices, deviceCommands, deviceStatus>>
history == <<sinceDrain, delivered, nextTag>>

\* ------------------------------------------------------------ JS objects
\* obj[k] is an own property; for k = "__proto__", the prototype of obj has
\* been replaced by a stored value (obj["__proto__"] = v), which is what
\* obj["__proto__"] then reads.
Own(obj, k) == k \in DOMAIN obj
\* obj[k] is truthy: an own property (always an object or an array here), an
\* inherited function, the prototype object, or a property that was added to
\* Object.prototype (a timestamp string).
Truthy(obj, k) ==
  Own(obj, k) \/ k \in ProtoKeys \/ k = PrototypeKey \/ k \in DOMAIN objectPrototype
\* obj[k] resolves to an inherited value, not to a stored one.
Inherited(obj, k) == ~Own(obj, k) /\ Truthy(obj, k)
\* obj[k] = v
Put(obj, k, v) == [x \in (DOMAIN obj) \cup {k} |-> IF x = k THEN v ELSE obj[x]]
\* Object.length, the arity of the Object constructor.
ObjectLength == 1
\* The length of new Date().toISOString().
IsoLength == 24
\* The value has no length property (Object.prototype): res.json drops the field.
NoLength == -1

\* new Date() read at or after time t.
DateNow(t) == {t} \cup (IF t < MaxTime THEN {t + 1} ELSE {})

\* history: the numbers of the accepted commands in an array of queued commands.
RECURSIVE TagsOf(_)
TagsOf(q) == IF q = <<>> THEN <<>> ELSE <<Head(q).tag>> \o TagsOf(Tail(q))
Range(s) == {s[i] : i \in DOMAIN s}

\* ------------------------------------------------------------ responses
NoDevices == {}
\* A success body echoes device_id; an error body ({ error: ... }) does not, and
\* is built by Failure below.
Response(op, id, code) ==
  [op |-> op, device_id |-> id, code |-> code, commands |-> <<>>, has_list |-> FALSE,
   count |-> 0, pending_commands |-> 0, devices |-> NoDevices]
Failure(op, code) == Response(op, "", code)

Init ==
  /\ registeredDevices = <<>>
  /\ deviceCommands = <<>>
  /\ deviceStatus = <<>>
  /\ now = 0
  /\ res = Response("none", "", 0)
  /\ sinceDrain = [k \in AllKeys |-> <<>>]
  /\ delivered = [t \in Tags |-> 0]
  /\ nextTag = 1
  /\ justRegistered = FALSE
  /\ overwrote = FALSE
  /\ objectPrototype = <<>>

\* Time passes between two requests.
Tick ==
  /\ now < MaxTime
  /\ now' = now + 1
  /\ UNCHANGED <<stores, res, history, justRegistered, overwrote, objectPrototype>>

\* (a registration that starts the queue afresh)
EnsureQueueAfresh(cmds, device_id) == Put(cmds, device_id, <<>>)

\* if (!deviceCommands[device_id]) deviceCommands[device_id] = [];
EnsureQueue(cmds, device_id) ==
  IF Truthy(cmds, device_id) THEN cmds ELSE Put(cmds, device_id, <<>>)

\* (a registration that keeps the registered_at of a record it finds)
RegistrationOnce(devs, device_id, t1, t2, ip) ==
  Put(devs, device_id,
      [registered_at |-> IF Own(devs, device_id) THEN devs[device_id].registered_at ELSE t1,
       last_seen |-> t2, status |-> "active", ip |-> ip])

\* registeredDevices[device_id] = { registered_at, last_seen, status: 'active', ip }
Registration(devs, device_id, t1, t2, ip) ==
  Put(devs, device_id,
      [registered_at |-> t1, last_seen |-> t2, status |-> "active", ip |-> ip])

\* POST /register_device
RegisterDevice(device_id, ip) ==
  /\ justRegistered' = FALSE
  /\ overwrote' = FALSE
  /\ objectPrototype' = objectPrototype
  /\ IF device_id = ""
     THEN /\ res' = Failure("register", 400)
          /\ UNCHANGED <<stores, now, history>>
     ELSE \E t1 \in DateNow(now) : \E t2 \in DateNow(t1) :
          /\ registeredDevices' = Registration(registeredDevices, device_id, t1, t2, ip)
          /\ deviceCommands' = EnsureQueue(deviceCommands, device_id)
          /\ now' = t2
          /\ res' = Response("register", device_id, 200)
          /\ UNCHANGED <<deviceStatus, history>>

\* if (!registeredDevices[device_id]) return 404
\* registeredDevices[device_id] is truthy: also when the prototype of the store
\* was replaced by a device record (a registration of "__proto__") and the id
\* names one of its fields.
IsRegistered(device_id) ==
  \/ Truthy(registeredDevices, device_id)
  \/ /\ Own(registeredDevices, PrototypeKey)
     /\ device_id \in DOMAIN registeredDevices[PrototypeKey]

\* (a heartbeat that stamps the whole record, registered_at included)
TouchedAll(devs, device_id, t) ==
  IF Own(devs, device_id)
  THEN Put(devs, device_id,
           [devs[device_id] EXCEPT !.registered_at = t, !.last_seen = t])
  ELSE devs

\* registeredDevices[device_id].last_seen = t.  When the lookup resolved to the
\* inherited function the property lands on that function, which no handler
\* reads back: the stores keep their own properties.
Touched(devs, device_id, t) ==
  IF Own(devs, device_id)
  THEN Put(devs, device_id, [devs[device_id] EXCEPT !.last_seen = t])
  ELSE devs

\* The same assignment when registeredDevices["__proto__"] is Object.prototype
\* itself: the timestamp becomes a property of Object.prototype.  (On the
\* function Object, or on an inherited string, the assignment is not visible
\* to any later lookup.)
PrototypeTouched(proto, devs, device_id, t) ==
  IF device_id = PrototypeKey /\ ~Own(devs, device_id)
  THEN Put(proto, "last_seen", t)
  ELSE proto

\* const { device_id, status = 'idle', recording = false, screen_recording = false } = req.body
Default(field, d) == IF field.given THEN field.value ELSE d

\* (an update that keeps the stored value of a field the caller leaves out)
RecordedMerged(statuses, device_id, status, recording, screen_recording, t, ip) ==
  LET old == IF Own(statuses, device_id)
             THEN statuses[device_id]
             ELSE [status |-> "idle", recording |-> FALSE, screen_recording |-> FALSE]
  IN Put(statuses, device_id,
         [status |-> Default(status, old.status),
          recording |-> Default(recording, old.recording),
          screen_recording |-> Default(screen_recording, old.screen_recording),
          last_updated |-> t, ip |-> ip])

\* deviceStatus[device_id] = { status, recording, screen_recording, last_updated, ip }
Recorded(statuses, device_id, status, recording, screen_recording, t, ip) ==
  Put(statuses, device_id,
      [status |-> Default(status, "idle"),
       recording |-> Default(recording, FALSE),
       screen_recording |-> Default(screen_recording, FALSE),
       last_updated |-> t, ip |-> ip])

\* POST /update_status
UpdateStatus(device_id, status, recording, screen_recording, ip) ==
  /\ justRegistered' = FALSE
  /\ overwrote' = (Own(deviceStatus, device_id) /\ deviceStatus[device_id].recording)
  /\ IF device_id = ""
     THEN /\ res' = Failure("status", 400)
          /\ UNCHANGED <<stores, now, history, objectPrototype>>
     ELSE \E t1 \in DateNow(now) :
          \E t2 \in (IF IsRegistered(device_id) THEN DateNow(t1) ELSE {t1}) :
          /\ deviceStatus' = Recorded(deviceStatus, device_id,
                                     status, recording, screen_recording, t1, ip)
          /\ registeredDevices' = Touched(registeredDevices, device_id, t2)
          /\ objectPrototype' =
               PrototypeTouched(objectPrototype, registeredDevices, device_id, t2)
          /\ now' = t2
          /\ res' = Response("status", device_id, 200)
          /\ UNCHANGED <<deviceCommands, history>>

\* (a drain that forgets to empty the queue)
EmptiedNot(cmds, device_id) == cmds

\* deviceCommands[device_id] = [];
Emptied(cmds, device_id) == Put(cmds, device_id, <<>>)

\* (a poll that hands out the oldest command only)
PolledOldest(cmds, device_id) ==
  IF Own(cmds, device_id) /\ cmds[device_id] # <<>> THEN <<Head(cmds[device_id])>> ELSE <<>>

\* const commands = deviceCommands[device_id] || [];  as the client reads it from
\* the JSON body: a function-valued property is left out by JSON.stringify.
PolledCommands(cmds, device_id) ==
  IF Own(cmds, device_id) THEN cmds[device_id] ELSE <<>>
PolledHasList(cmds, device_id) == ~Inherited(cmds, device_id)
\* count: commands.length
PolledCount(cmds, device_id) ==
  IF Own(cmds, device_id) THEN Len(cmds[device_id])
  ELSE IF device_id \in ProtoKeys THEN ObjectLength
  ELSE IF device_id \in DOMAIN objectPrototype THEN IsoLength
  ELSE IF device_id = PrototypeKey THEN NoLength
  ELSE 0

\* history: one more delivery of each command of q.
Counted(d, q) ==
  [t \in Tags |-> IF t \in Range(TagsOf(q)) /\ d[t] < 2 THEN d[t] + 1 ELSE d[t]]

\* GET /get_commands/:device_id   (a path parameter is never empty)
PollCommands(device_id) ==
  /\ justRegistered' = (res.op = "register" /\ res.code = 200 /\ res.device_id = device_id)
  /\ overwrote' = FALSE
  /\ IF ~IsRegistered(device_id)
     THEN /\ res' = Failure("poll", 404)
          /\ UNCHANGED <<stores, now, history, objectPrototype>>
     ELSE \E t \in DateNow(now) :
          /\ registeredDevices' = Touched(registeredDevices, device_id, t)
          /\ objectPrototype' =
               PrototypeTouched(objectPrototype, registeredDevices, device_id, t)
          /\ deviceCommands' = Emptied(deviceCommands, device_id)
          /\ now' = t
          /\ res' = [Response("poll", device_id, 200) EXCEPT
                       !.commands = PolledCommands(deviceCommands, device_id),
                       !.has_list = PolledHasList(deviceCommands, device_id),
                       !.count = PolledCount(deviceCommands, device_id)]
          /\ delivered' = Counted(delivered, PolledCommands(deviceCommands, device_id))
          /\ sinceDrain' = [sinceDrain EXCEPT ![device_id] = <<>>]
          /\ UNCHANGED <<deviceStatus, nextTag>>

\* (an enqueue that overwrites what is pending)
PushOver(q, entry) == <<entry>>

\* deviceCommands[device_id].push(command)
Push(q, entry) == Append(q, entry)

\* POST /admin/send_command
SendCommand(device_id, command) ==
  /\ justRegistered' = FALSE
  /\ overwrote' = FALSE
  /\ objectPrototype' = objectPrototype
  /\ IF device_id = "" \/ command = ""
     THEN /\ res' = Failure("send", 400)
          /\ UNCHANGED <<stores, now, history>>
     ELSE IF ~IsRegistered(device_id)
     THEN /\ res' = Failure("send", 404)
          /\ UNCHANGED <<stores, now, history>>
     ELSE IF Inherited(EnsureQueue(deviceCommands, device_id), device_id)
     THEN \* the inherited function has no push: TypeError, caught, 500
          /\ res' = Failure("send", 500)
          /\ UNCHANGED <<stores, now, history>>
     ELSE /\ nextTag <= MaxSends
          /\ LET queue == EnsureQueue(deviceCommands, device_id)[device_id]
                 pushed == Push(queue, [cmd |-> command, tag |-> nextTag])
             IN /\ deviceCommands' = Put(deviceCommands, device_id, pushed)
                /\ res' = [Response("send", device_id, 200) EXCEPT
                             !.commands = <<[cmd |-> command, tag |-> nextTag]>>,
                             !.pending_commands = Len(pushed)]
          /\ sinceDrain' = [sinceDrain EXCEPT ![device_id] = Append(@, nextTag)]
          /\ nextTag' = nextTag + 1
          /\ UNCHANGED <<registeredDevices, deviceStatus, now, delivered>>

\* (a clear that creates the queue it does not find before answering 404)
ClearCommandsCreating(device_id) ==
  /\ justRegistered' = FALSE
  /\ overwrote' = FALSE
  /\ objectPrototype' = objectPrototype
  /\ IF Truthy(deviceCommands, device_id)
     THEN /\ deviceCommands' = Emptied(deviceCommands, device_id)
          /\ res' = Response("clear", device_id, 200)
          /\ sinceDrain' = [sinceDrain EXCEPT ![device_id] = <<>>]
          /\ UNCHANGED <<registeredDevices, deviceStatus, now, delivered, nextTag>>
     ELSE /\ deviceCommands' = Emptied(deviceCommands, device_id)
          /\ res' = Failure("clear", 404)
          /\ UNCHANGED <<registeredDevices, deviceStatus, now, history>>

\* (a clear that counts as a sign of life of the device)
ClearCommandsTouching(device_id) ==
  /\ justRegistered' = FALSE
  /\ overwrote' = FALSE
  /\ objectPrototype' = objectPrototype
  /\ IF Truthy(deviceCommands, device_id)
     THEN \E t \in DateNow(now) :
          /\ deviceCommands' = Emptied(deviceCommands, device_id)
          /\ registeredDevices' = Touched(registeredDevices, device_id, t)
          /\ now' = t
          /\ res' = Response("clear", device_id, 200)
          /\ sinceDrain' = [sinceDrain EXCEPT ![device_id] = <<>>]
          /\ UNCHANGED <<deviceStatus, delivered, nextTag>>
     ELSE /\ res' = Failure("clear", 404)
          /\ UNCHANGED <<stores, now, history>>

\* DELETE /admin/clear_commands/:device_id
ClearCommands(device_id) ==
  /\ justRegistered' = FALSE
  /\ overwrote' = FALSE
  /\ objectPrototype' = objectPrototype
  /\ IF Truthy(deviceCommands, device_id)
     THEN /\ deviceCommands' = Emptied(deviceCommands, device_id)
          /\ res' = Response("clear", device_id, 200)
          /\ sinceDrain' = [sinceDrain EXCEPT ![device_id] = <<>>]
          /\ UNCHANGED <<registeredDevices, deviceStatus, now, delivered, nextTag>>
     ELSE /\ res' = Failure("clear", 404)
          /\ UNCHANGED <<stores, now, history>>

\* statusInfo.status || 'unknown'
ListedStatus(device_id) ==
  IF Own(deviceStatus, device_id) /\ deviceStatus[device_id].status # ""
  THEN deviceStatus[device_id].status ELSE "unknown"
\* statusInfo.recording || false, statusInfo.screen_recording || false
ListedRecording(device_id) ==
  Own(deviceStatus, device_id) /\ deviceStatus[device_id].recording
ListedScreenRecording(device_id) ==
  Own(deviceStatus, device_id) /\ deviceStatus[device_id].screen_recording
\* (deviceCommands[device_id] || []).length
PendingCount(device_id) == PolledCount(deviceCommands, device_id)

\* Object.keys(registeredDevices).map(...), as a set (the order is unspecified).
\* Object.keys lists own properties, which a replaced prototype is not.
DevicesList ==
  {[device_id |-> k,
    registered_at |-> registeredDevices[k].registered_at,
    last_seen |-> registeredDevices[k].last_seen,
    status |-> ListedStatus(k),
    recording |-> ListedRecording(k),
    screen_recording |-> ListedScreenRecording(k),
    pending_commands |-> PendingCount(k),
    ip |-> registeredDevices[k].ip] : k \in (DOMAIN registeredDevices) \ {PrototypeKey}}

\* (a listing that counts as a sign of life of every device it shows)
ListDevicesTouching ==
  /\ justRegistered' = FALSE
  /\ overwrote' = FALSE
  /\ objectPrototype' = objectPrototype
  /\ res' = [Response("list", "", 200) EXCEPT !.devices = DevicesList]
  /\ registeredDevices' =
       [k \in DOMAIN registeredDevices |-> [registeredDevices[k] EXCEPT !.last_seen = now]]
  /\ UNCHANGED <<deviceCommands, deviceStatus, now, history>>

\* GET /admin/devices
ListDevices ==
  /\ justRegistered' = FALSE
  /\ overwrote' = FALSE
  /\ objectPrototype' = objectPrototype
  /\ res' = [Response("list", "", 200) EXCEPT !.devices = DevicesList]
  /\ UNCHANGED <<stores, now, history>>

Next ==
  \/ Tick
  \/ \E device_id \in IdInputs, ip \in Ips : RegisterDevice(device_id, ip)
  \/ \E device_id \in IdInputs, body \in StatusBodies, ip \in Ips :
        UpdateStatus(device_id, body.status, body.recording, body.screen_recording, ip)
  \/ \E device_id \in Keys : PollCommands(device_id)
  \/ \E device_id \in IdInputs, command \in CommandInputs : SendCommand(device_id, command)
  \/ \E device_id \in Keys : ClearCommands(device_id)
  \/ ListDevices

Spec == Init /\ [][Next]_vars

\* The same server when the device ids that clients send are "__proto__" and
\* "last_seen".
NextProto ==
  \/ Tick
  \/ \E device_id \in PollutionIds, ip \in Ips : RegisterDevice(device_id, ip)
  \/ \E device_id \in PollutionIds, body \in StatusBodies, ip \in Ips :
        UpdateStatus(device_id, body.status, body.recording, body.screen_recording, ip)
  \/ \E device_id \in PollutionIds : PollCommands(device_id)
  \/ \E device_id \in PollutionIds, command \in Commands : SendCommand(device_id, command)
  \/ \E device_id \in PollutionIds : ClearCommands(device_id)
  \/ ListDevices

SpecProto == Init /\ [][NextProto]_vars

\* ------------------------------------------------------------ vocabulary
\* A device record is stored under k.  Nothing ever removes one (C10), so this
\* is also "k was registered at some time".
Registered(k) == Own(registeredDevices, k)
\* The array stored under k, and no commands when none is stored.
Queue(cmds, k) == IF Own(cmds, k) THEN cmds[k] ELSE <<>>
\* The last request was a poll of k that was answered with 200.
Polled(k) == res.op = "poll" /\ res.code = 200 /\ res.device_id = k

\* ------------------------------------------------------------------- C1
\* C1: no accepted command is dropped.  Whatever order the requests on one id
\* are served in, a poll of k returns every command that sendCommand accepted
\* for k since the last successful poll or clear of k (so it does not fail
\* while one is owed).
C1_NoAcceptedCommandDropped ==
  [][\A k \in Keys :
       PollCommands(k)
         => Range(sinceDrain[k]) \subseteq Range(TagsOf(res'.commands))]_vars

\* A poll has returned two accepted commands at once.
C1_Witness ==
  /\ res.op = "poll" /\ res.code = 200
  /\ Len(res.commands) = 2

\* ------------------------------------------------------------------- C2
\* C2: at most once.  No accepted command (each enqueue counted on its own)
\* is returned by two polls, and a command that a poll returned is in no
\* queue afterwards.
C2_AtMostOnce ==
  \A t \in Tags :
    /\ delivered[t] <= 1
    /\ delivered[t] = 1 => \A k \in Keys : t \notin Range(TagsOf(Queue(deviceCommands, k)))

\* A command was returned by a poll and another poll of the same id followed.
C2_Witness ==
  /\ \E t \in Tags : delivered[t] = 1
  /\ res.op = "poll" /\ res.code = 200 /\ res.commands = <<>>
  /\ res.device_id \in DeviceIds
  /\ ~Own(deviceCommands, "constructor")

\* ------------------------------------------------------------------- C3
\* C3 as stated: for a registered id a poll answers 200 with a list that is
\* exactly the commands accepted for the id since its last poll or clear, in
\* the order they were accepted, duplicates kept, and count is the length of
\* that list; the id's queue is empty afterwards, so that an immediate second
\* poll returns the empty list and count 0.
C3_FifoDrain ==
  [][\A k \in Keys :
       (Registered(k) /\ PollCommands(k))
         => /\ res'.code = 200
            /\ res'.has_list
            /\ TagsOf(res'.commands) = sinceDrain[k]
            /\ res'.count = Len(res'.commands)
            /\ Queue(deviceCommands', k) = <<>>
            /\ sinceDrain'[k] = <<>>]_vars

C5_ReRegisterKeepsQueueAndStatus ==
  [][\A k \in Keys : \A ip \in Ips :
       (Registered(k) /\ RegisterDevice(k, ip))
         => /\ Own(deviceCommands', k) = Own(deviceCommands, k)
            /\ Queue(deviceCommands', k) = Queue(deviceCommands, k)
            /\ Own(deviceStatus', k) = Own(deviceStatus, k)
            /\ (Own(deviceStatus, k) => deviceStatus'[k] = deviceStatus[k])
            /\ registeredDevices'[k].registered_at \in now..now'
            /\ registeredDevices'[k].last_seen \in now..now'
            /\ registeredDevices'[k].registered_at <= registeredDevices'[k].last_seen]_vars

\* dev1 has just registered again, at a later time, with a command pending and
\* a status stored.
C5_Witness ==
  /\ res.op = "register" /\ res.code = 200 /\ res.device_id = "dev1"
  /\ Len(Queue(deviceCommands, "dev1")) >= 1
  /\ Own(deviceStatus, "dev1")
  /\ registeredDevices["dev1"].registered_at = MaxTime
  /\ deviceStatus["dev1"].last_updated < MaxTime

\* ------------------------------------------------------------------- C6
\* C6 as stated: a poll of an id that was never registered answers 404 and
\* stores neither a device record nor a queue for it.
C6_PollUnregisteredFails ==
  [][\A k \in Keys :
       (~Registered(k) /\ PollCommands(k))
         => /\ res'.code = 404
            /\ ~Own(registeredDevices', k)
            /\ Own(deviceCommands', k) = Own(deviceCommands, k)]_vars

\* ------------------------------------------------------------------- C7
\* C7 as stated: sendCommand answers 400 when the id or the command is empty,
\* whether or not the id is registered, and 404 for a non-empty command to an
\* id that was never registered; in both cases the queues stay as they are.
C7_SendRejected ==
  [][\A id \in IdInputs : \A c \in CommandInputs :
       SendCommand(id, c)
         => /\ (id = "" \/ c = "")
                 => (res'.code = 400 /\ deviceCommands' = deviceCommands)
            /\ (id # "" /\ c # "" /\ ~Registered(id))
                 => (res'.code = 404 /\ deviceCommands' = deviceCommands)]_vars

\* ------------------------------------------------------------------- C8
\* C8: an accepted sendCommand leaves the id's queue one entry longer, the
\* earlier entries in place and its own command last, and answers with the
\* length of that queue.
C8_SendAppendsAndCounts ==
  [][\A id \in Keys : \A c \in Commands :
       (SendCommand(id, c) /\ res'.code = 200)
         => LET old == Queue(deviceCommands, id)
                new == Queue(deviceCommands', id)
            IN /\ Len(new) = Len(old) + 1
               /\ SubSeq(new, 1, Len(old)) = old
               /\ new[Len(new)].cmd = c
               /\ new[Len(new)].tag \notin Range(TagsOf(old))
               /\ res'.pending_commands = Len(new)]_vars

\* A second command was accepted behind a pending one and answered with 2.
C8_Witness ==
  /\ res.op = "send" /\ res.code = 200 /\ res.pending_commands = 2
  /\ Len(Queue(deviceCommands, res.device_id)) = 2

\* ------------------------------------------------------------------- C9
\* C9 as stated: an updateStatus for an id that is not registered is answered
\* 200 and stores the status record without registering the id; while the id
\* stays unregistered it is not listed and polls and sends to it answer 404;
\* once it registers, the listing shows the status stored before (stated here
\* for the non-empty statuses).
C9_StatusDoesNotRegister ==
  [][\A k \in Keys :
       ~Registered(k)
         => /\ \A body \in StatusBodies : \A ip \in Ips :
                 UpdateStatus(k, body.status, body.recording, body.screen_recording, ip)
                   => /\ res'.code = 200
                      /\ Own(deviceStatus', k)
                      /\ deviceStatus'[k].status = Default(body.status, "idle")
                      /\ ~Registered(k)'
                      /\ \A d \in DevicesList' : d.device_id # k
            /\ (Own(deviceStatus, k) /\ PollCommands(k)) => res'.code = 404
            /\ \A c \in Commands :
                 (Own(deviceStatus, k) /\ SendCommand(k, c)) => res'.code = 404
            /\ \A ip \in Ips :
                 (Own(deviceStatus, k) /\ deviceStatus[k].status # "" /\ RegisterDevice(k, ip))
                   => \E d \in DevicesList' :
                        d.device_id = k /\ d.status = deviceStatus[k].status]_vars

\* ------------------------------------------------------------------ C10
\* The ids that pass the test of lines 168 and 505 (registeredDevices[id] is
\* truthy), which is what makes an id known to poll and send.
Known == {k \in AllKeys : IsRegistered(k)}

\* C10: the set of known ids only grows, and it grows only in a step that
\* answers a registration with 200.
C10_OnlyRegisterAddsDevices ==
  [][/\ Known \subseteq Known'
     /\ Known' # Known => res'.op = "register" /\ res'.code = 200]_vars

\* ------------------------------------------------------------------ C11
\* C11: clearing the commands of an id that was never registered is answered
\* 404 and changes no store; clearing those of a registered id is answered 200
\* (also when nothing is pending), leaves no command pending or owed to a
\* later poll, and leaves the device record and the status record as they
\* were.
C11_ClearCommands ==
  [][\A k \in Keys :
       ClearCommands(k) =>
         /\ ~Registered(k) =>
              /\ res'.code = 404
              /\ registeredDevices' = registeredDevices
              /\ deviceCommands' = deviceCommands
              /\ deviceStatus' = deviceStatus
         /\ Registered(k) =>
              /\ res'.code = 200
              /\ Queue(deviceCommands', k) = <<>>
              /\ sinceDrain'[k] = <<>>
              /\ \A d \in DevicesList' : d.device_id = k => d.pending_commands = 0
              /\ registeredDevices' = registeredDevices
              /\ deviceStatus' = deviceStatus]_vars

\* ------------------------------------------------------------------ C12
\* C12 as stated: once an id has a device record, no step changes its
\* registered_at.
C12_RegisteredAtSetOnce ==
  [][\A k \in Keys :
       Registered(k) =>
         registeredDevices'[k].registered_at = registeredDevices[k].registered_at]_vars

\* C12: a device record is never removed, and its registered_at changes only in
\* a step that answers a registration of that id with 200; every such
\* registration, the first or a repeated one, sets it to a clock reading taken
\* during the call, so it never moves backwards.
C12_RegisteredAtOnlyByRegistration ==
  [][\A k \in Keys :
       /\ Registered(k) =>
            /\ Registered(k)'
            /\ registeredDevices'[k].registered_at >= registeredDevices[k].registered_at
            /\ registeredDevices'[k].registered_at # registeredDevices[k].registered_at
                 => res'.op = "register" /\ res'.code = 200 /\ res'.device_id = k
       /\ \A ip \in Ips :
            RegisterDevice(k, ip) =>
              /\ registeredDevices'[k].registered_at >= now
              /\ registeredDevices'[k].registered_at <= now']_vars

\* dev1 polled a command before (so it was registered before), and has just
\* been registered again at the last clock value.
C12_Witness ==
  /\ res.op = "register" /\ res.code = 200 /\ res.device_id = "dev1"
  /\ \E t \in Tags : delivered[t] = 1
  /\ ~Own(deviceCommands, "constructor")
  /\ registeredDevices["dev1"].registered_at = MaxTime

\* ------------------------------------------------------------------ C13
\* A step that is a heartbeat of the registered id k: a registration of k, a
\* poll of k, or a status update of k while k has a device record.  Each of
\* them answers 200 and names k, which is tested first.
Heartbeat(k) ==
  /\ res'.code = 200 /\ res'.device_id = k
  /\ \/ res'.op = "register" /\ \E ip \in Ips : RegisterDevice(k, ip)
     \/ res'.op = "poll" /\ Registered(k) /\ PollCommands(k)
     \/ /\ res'.op = "status" /\ Registered(k)
        /\ \E body \in StatusBodies, ip \in Ips :
             UpdateStatus(k, body.status, body.recording, body.screen_recording, ip)

\* C13: a heartbeat of k leaves the last_seen of k at the clock reading the
\* handler took, which is the time at which the step ends; every other step
\* (sendCommand, clearCommands, listDevices, any request for another id, the
\* passing of time) leaves it as it was.  So in every state it is the time of
\* the most recent heartbeat of k, and it never decreases.
C13_LastSeenIsLastHeartbeat ==
  [][\A k \in Keys :
       Registered(k)' =>
         /\ IF Heartbeat(k)
            THEN /\ registeredDevices'[k].last_seen = now'
                 /\ registeredDevices'[k].last_seen >= now
            ELSE /\ Registered(k)
                 /\ registeredDevices'[k].last_seen = registeredDevices[k].last_seen
         /\ Registered(k) =>
              /\ registeredDevices[k].last_seen <= now
              /\ registeredDevices'[k].last_seen >= registeredDevices[k].last_seen]_vars

\* dev1 polled a command at time 0; the clock has moved on and the clear that
\* was served last left last_seen at 0.
C13_Witness ==
  /\ res.op = "clear" /\ res.code = 200 /\ res.device_id = "dev1"
  /\ \E t \in Tags : delivered[t] = 1
  /\ ~Own(deviceCommands, "constructor")
  /\ registeredDevices["dev1"].last_seen = 0
  /\ now = MaxTime

\* ------------------------------------------------------------------ C14
\* C14: listing the devices changes none of the three stores; and as long as
\* the request served last was a listing, a listing served now returns the
\* same set of records as that one did.
C14_ListReadOnly ==
  [][/\ ListDevices =>
          /\ registeredDevices' = registeredDevices
          /\ deviceCommands' = deviceCommands
          /\ deviceStatus' = deviceStatus
     /\ (res'.op = "list" /\ res'.code = 200) => res'.devices = DevicesList']_vars

\* Two devices were listed, one of them last seen before the clock moved on.
C14_Witness ==
  /\ res.op = "list" /\ res.code = 200
  /\ Cardinality(res.devices) = 2
  /\ \E d \in res.devices : d.last_seen < now /\ d.pending_commands = 2

\* ------------------------------------------------------------------ C15
\* C15: a listing has exactly one record for every id with a device record and
\* none for any other id; the pending_commands of a record is the length of
\* the command sequence of its id; its status and flags are those last stored
\* by updateStatus for its id, or "unknown", false and false when no status
\* record is stored.  (The stores are as the listing left them for as long as
\* the listing is the request served last.)
C15_ListingMatchesStores ==
  (res.op = "list" /\ res.code = 200) =>
    /\ \A k \in Keys :
         Cardinality({d \in res.devices : d.device_id = k})
           = IF Registered(k) THEN 1 ELSE 0
    /\ \A d \in res.devices :
         /\ d.device_id \in Keys
         /\ d.pending_commands = Len(Queue(deviceCommands, d.device_id))
         /\ IF Own(deviceStatus, d.device_id)
            THEN /\ d.status = deviceStatus[d.device_id].status
                 /\ d.recording = deviceStatus[d.device_id].recording
                 /\ d.screen_recording = deviceStatus[d.device_id].screen_recording
            ELSE /\ d.status = "unknown"
                 /\ d.recording = FALSE
                 /\ d.screen_recording = FALSE

\* ------------------------------------------------------------------ C16
\* C16: a request that is answered 400 (registration or status update without
\* an id, send without an id or a command) or 404 (poll, send or clear of an
\* id that is not known) leaves the three stores, last_seen included, exactly
\* as they were.
C16_FailureChangesNothing ==
  [][(/\ res'.code \in {400, 404}
      /\ res'.op \in {"register", "status", "poll", "send", "clear"})
       => /\ registeredDevices' = registeredDevices
          /\ deviceCommands' = deviceCommands
          /\ deviceStatus' = deviceStatus]_vars

\* A clear of the unregistered dev1 was answered 404 while the stores hold a
\* device record, a queue and a status record.
C16_Witness ==
  /\ res.op = "clear" /\ res.code = 404
  /\ Registered("constructor") /\ Own(deviceCommands, "constructor")
  /\ Own(deviceStatus, "dev1")
  /\ ~Registered("dev1")

\* ------------------------------------------------------------------ C17
\* C17: after a status update of k the status record of k holds, for each of
\* status, recording and screen_recording, the value the caller gave, and
\* "idle", false, false for what the caller left out, whatever record was
\* stored for k before.
C17_StatusReplaced ==
  [][\A k \in Keys : \A body \in StatusBodies : \A ip \in Ips :
       (/\ res'.op = "status" /\ res'.code = 200
        /\ UpdateStatus(k, body.status, body.recording, body.screen_recording, ip))
         => /\ Own(deviceStatus', k)
            /\ deviceStatus'[k].status
                 = IF body.status.given THEN body.status.value ELSE "idle"
            /\ deviceStatus'[k].recording
                 = IF body.recording.given THEN body.recording.value ELSE FALSE
            /\ deviceStatus'[k].screen_recording
                 = IF body.screen_recording.given THEN body.screen_recording.value ELSE FALSE
            /\ deviceStatus'[k].ip = ip
            /\ deviceStatus'[k].last_updated >= now
            /\ deviceStatus'[k].last_updated <= now']_vars

\* The update served last named dev1 and gave no field, and it replaced a
\* record that had status "active" and recording set: the record now holds
\* the three defaults.
C17_Witness ==
  /\ res.op = "status" /\ res.code = 200 /\ res.device_id = "dev1"
  /\ overwrote
  /\ Own(deviceStatus, "dev1")
  /\ deviceStatus["dev1"].status = "idle"
  /\ ~deviceStatus["dev1"].recording /\ ~deviceStatus["dev1"].screen_recording

\* ------------------------------------------------------------------ C18
\* C18: in every reachable state the ids that have a command queue are the ids
\* that have a device record.
C18_QueueIffRegistered ==
  DOMAIN deviceCommands = DOMAIN registeredDevices

\* ------------------------------------------------------------------ C19
\* The store holds under k in the new state what it held in the old one.
SameAt(old, new, k) ==
  /\ Own(new, k) = Own(old, k)
  /\ Own(old, k) => new[k] = old[k]

\* A step that serves a request addressed to the id A.
AddressedTo(A) ==
  \/ \E ip \in Ips : RegisterDevice(A, ip)
  \/ \E body \in StatusBodies, ip \in Ips :
       UpdateStatus(A, body.status, body.recording, body.screen_recording, ip)
  \/ PollCommands(A)
  \/ \E command \in CommandInputs : SendCommand(A, command)
  \/ ClearCommands(A)

\* C19: a request addressed to the id A leaves the device record, the command
\* queue and the status record of every other id B as they were, and with
\* them whether B is known, in whatever order the requests for the two ids
\* are served.
C19_PerDeviceIsolation ==
  [][\A A \in AllKeys : \A B \in AllKeys \ {A} :
       \/ /\ SameAt(registeredDevices, registeredDevices', B)
          /\ SameAt(deviceCommands, deviceCommands', B)
          /\ SameAt(deviceStatus, deviceStatus', B)
          /\ IsRegistered(B)' = IsRegistered(B)
       \/ ~AddressedTo(A)]_vars
====
